---- MODULE Spec2Model ----
(***************************************************************************)
(* Model of the kernel pipe subsystem, src/kernel/util/multitasking/pipe.c *)
(* (pipe, find_pipe, pipe_read, pipe_write, pipe_close).                   *)
(*                                                                         *)
(* Every call runs to completion (cooperative kernel), so each call is one *)
(* action.  The circular buffer, the array_m container, ASSERT and process *)
(* duplication live outside pipe.c; they are modelled from the design      *)
(* document and kept in operators of their own.                            *)
(***************************************************************************)
EXTENDS Integers, Sequences, FiniteSets, TLC

\* ---------------------------------------------------------------- bounds
\* number of processes
NumProcs == 2
\* number of pipe() calls in one run (endpoint and descriptor ids are fresh)
MaxCreates == 2
\* current->pipes->max_size, fixed at task creation (outside pipe.c)
PipesMaxSize == 3
\* ring capacity; pipe.c:26 passes 64, scaled down to keep the model finite
Capacity == 2
\* largest count passed to pipe_read
MaxCount == 3

\* ------------------------------------------------------------- constants
\* end-of-stream sentinel: (char)EOF
EOF == -1
\* no endpoint found
NULL == 0
\* array_m_index: value absent
ARR_NOT_FOUND == -1
\* array_m_create(32): capacity of an endpoint's pid list
PidsMaxSize == 32

Procs == 1..NumProcs
Pipes == 1..MaxCreates
Eps == 1..(2 * MaxCreates)
Addrs == 1..MaxCreates
\* every descriptor id pipe_create can hand out, and one it never does
Fds == 0..(2 * MaxCreates)
\* two data bytes and the sentinel
Bytes == {1, 2, EOF}
Counts == 0..MaxCount
\* a caller buffer one byte longer than the ring: 1, 2, 1, ...
Long == [i \in 1..(Capacity + 1) |-> IF i % 2 = 1 THEN 1 ELSE 2]
\* caller buffers given to pipe_write: everything up to two bytes, and Long
WriteInputs ==
    {<<>>} \cup {<<a>> : a \in Bytes} \cup {<<a, b>> : a \in Bytes, b \in Bytes}
    \cup {Long}
\* the inputs of the runs that exercise several pipes (SpecLife): the
\* registry, the owner lists and the release of buffers never read a byte
LifeInputs == {<<1>>}
LifeCounts == {1}

\* the READ and WRITE endpoint allocated by the k-th pipe_create, and back
ReadEnd(k) == 2 * k - 1
WriteEnd(k) == 2 * k
PipeOf(e) == (e + 1) \div 2

VARIABLES
    pipes,      \* task_t.pipes: per process, the array_m of endpoints
    fd_max,     \* task_t.fd_max: per process, next descriptor id
    started,    \* the process exists
    halted,     \* the process hit the fatal ASSERT of pipe()
    ep,         \* the pipe_t objects: state, dir, fd, pids, cb
    cb,         \* the heap cells holding circular_buffer structs
    np,         \* number of pipe_create calls so far
    last,       \* the last call: operation, caller, arguments, result
    released,   \* history: per pipe, how often its buffer was released
    closed      \* history: per process, descriptors it has closed

vars ==
    <<pipes, fd_max, started, halted, ep, cb, np, last, released, closed>>

\* the program's own state (everything but the call record and histories)
prog == <<pipes, fd_max, started, halted, ep, cb, np>>
hist == <<released, closed>>

\* the descriptors a caller passes: every id the process was ever given,
\* and the next one, which it has not been given yet
FdsOf(p) == 0..fd_max[p]

Min(a, b) == IF a < b THEN a ELSE b

\* ------------------------------------------------ array_m (std/array_m)
array_m_index(arr, x) ==
    IF \E i \in 1..Len(arr) : arr[i] = x
    THEN CHOOSE i \in 1..Len(arr) :
            arr[i] = x /\ \A j \in 1..(i - 1) : arr[j] # x
    ELSE ARR_NOT_FOUND

array_m_remove(arr, i) ==
    SubSeq(arr, 1, i - 1) \o SubSeq(arr, i + 1, Len(arr))

array_m_insert(arr, x) == Append(arr, x)

\* ------------------------------------------------------------ pipe_t
NoEp == [st |-> "none", dir |-> "READ", fd |-> 0, pids |-> <<>>, cb |-> 0]

\* mutant of NewEp: the creator is not entered into the owner list
NewEpNoOwner(d, f, p, a) ==
    [st |-> "live", dir |-> d, fd |-> f, pids |-> <<>>, cb |-> a]

NewEp(d, f, p, a) ==
    [st |-> "live", dir |-> d, fd |-> f, pids |-> array_m_insert(<<>>, p), cb |-> a]

\* a heap cell: never used, holding a circular_buffer, or freed
NoCb == [alloc |-> FALSE, used |-> FALSE, data |-> <<>>]
FreedCb == [alloc |-> FALSE, used |-> TRUE, data |-> <<>>]
cb_init == [alloc |-> TRUE, used |-> TRUE, data |-> <<>>]

\* kmalloc for the circular_buffer: the next fresh cell, or any freed cell
KmallocCb ==
    {a \in Addrs :
        /\ ~cb[a].alloc
        /\ \/ cb[a].used
           \/ \A b \in Addrs : b < a => cb[b].used}

Running(p) == started[p] /\ ~halted[p]

\* the record of a call.  void: the call returned without a value (pipe()
\* and the non-error paths of pipe_close have no return statement with a
\* value); buf: what the caller got back, the bytes buf[0..ret-1] of a read
\* or the two descriptors of pipe(); err: the printf_err message, "" if
\* none; uaf: the call addressed a released buffer
Call(op, p, fd, ret, buf, err, uaf) ==
    [op |-> op, pid |-> p, fd |-> fd, ret |-> ret, void |-> FALSE,
     buf |-> buf, err |-> err, uaf |-> uaf]

CallVoid(op, p, fd, buf, err, uaf) ==
    [op |-> op, pid |-> p, fd |-> fd, ret |-> 0, void |-> TRUE,
     buf |-> buf, err |-> err, uaf |-> uaf]

Init ==
    /\ pipes = [p \in Procs |-> <<>>]
    /\ fd_max = [p \in Procs |-> 0]
    /\ started = [p \in Procs |-> p = 1]
    /\ halted = [p \in Procs |-> FALSE]
    /\ ep = [e \in Eps |-> NoEp]
    /\ cb = [a \in Addrs |-> NoCb]
    /\ np = 0
    /\ last = CallVoid("init", 0, 0, <<>>, "", FALSE)
    /\ released = [k \in Pipes |-> 0]
    /\ closed = [p \in Procs |-> {}]

\* ------------------------------------------------------------- pipe()
\* mutant of OutOfPipes: the test fires one entry too late
OutOfPipesLate(p) ==
    Len(pipes[p]) >= PipesMaxSize

\* pipe.c:49: the registry cannot take two more entries
OutOfPipes(p) ==
    Len(pipes[p]) + 1 >= PipesMaxSize

\* pipe.c:37-55 with pipe_create, pipe.c:7-31.  The endpoints and the buffer
\* are allocated and fd_max advanced before the ASSERT, which ends the process
\* mutant of AllocFd: descriptors are numbered by the registry's size
AllocFdBySize(p, i) ==
    Len(pipes[p]) + i

\* mutant of AllocFd: fd_max is not advanced between the two endpoints
AllocFdSame(p, i) ==
    fd_max[p]

\* pipe.c:13 and pipe.c:20: the i-th descriptor of this call, fd_max++
AllocFd(p, i) ==
    fd_max[p] + i

pipe(p) ==
    /\ Running(p)
    /\ np < MaxCreates
    /\ \E a \in KmallocCb :
        LET r == ReadEnd(np + 1)
            w == WriteEnd(np + 1)
        IN
        /\ ep' = [ep EXCEPT ![r] = NewEp("READ", AllocFd(p, 0), p, a),
                            ![w] = NewEp("WRITE", AllocFd(p, 1), p, a)]
        /\ fd_max' = [fd_max EXCEPT ![p] = @ + 2]
        /\ cb' = [cb EXCEPT ![a] = cb_init]
        /\ np' = np + 1
        /\ IF OutOfPipes(p)
           THEN /\ halted' = [halted EXCEPT ![p] = TRUE]
                /\ pipes' = pipes
                /\ last' = CallVoid("pipe", p, 0, <<AllocFd(p, 0), AllocFd(p, 1)>>,
                                    "ran out of pipes", FALSE)
           ELSE /\ halted' = halted
                /\ pipes' = [pipes EXCEPT ![p] =
                                array_m_insert(array_m_insert(@, r), w)]
                /\ last' = CallVoid("pipe", p, 0, <<AllocFd(p, 0), AllocFd(p, 1)>>,
                                    "", FALSE)
    /\ UNCHANGED <<started, hist>>

\* ---------------------------------------------------------- find_pipe
\* mutant of find_pipe: the descriptor is not compared
find_pipeFirst(p, fd) ==
    IF pipes[p] # <<>> THEN pipes[p][1] ELSE NULL

\* pipe.c:57-69: first registry entry carrying the descriptor, or NULL
find_pipe(p, fd) ==
    IF \E i \in 1..Len(pipes[p]) : ep[pipes[p][i]].fd = fd
    THEN pipes[p][CHOOSE i \in 1..Len(pipes[p]) :
                    /\ ep[pipes[p][i]].fd = fd
                    /\ \A j \in 1..(i - 1) : ep[pipes[p][j]].fd # fd]
    ELSE NULL

\* mutant of WrongDir: the direction is never checked
WrongDirNever(e, d) ==
    FALSE

\* pipe.c:83 and pipe.c:119: the endpoint is not of the direction the call needs
WrongDir(e, d) ==
    ep[e].dir # d

\* ---------------------------------------------------------- pipe_read
RECURSIVE ReadLoopEmptyAsEof(_, _, _, _)
\* mutant of ReadLoop: an empty ring ends the loop the way the sentinel does
ReadLoopEmptyAsEof(data, buf, i, count) ==
    IF i < count
    THEN IF Len(data) = 0 \/ Head(data) = EOF
         THEN [ret |-> i - 1, buf |-> buf, data |-> IF Len(data) = 0 THEN data ELSE Tail(data)]
         ELSE ReadLoopEmptyAsEof(Tail(data), Append(buf, Head(data)), i + 1, count)
    ELSE [ret |-> i, buf |-> buf, data |-> data]

RECURSIVE ReadLoop(_, _, _, _)
\* pipe.c:88-104: data is the ring's content, buf the bytes stored into
\* buf[0..] so far, i the loop index.  ret is the returned i, at which the
\* terminator is stored
ReadLoop(data, buf, i, count) ==
    IF i < count /\ Len(data) # 0
    THEN LET c == Head(data)
         IN  IF c = EOF
             THEN [ret |-> i - 1, buf |-> Append(buf, c), data |-> Tail(data)]
             ELSE ReadLoop(Tail(data), Append(buf, c), i + 1, count)
    ELSE [ret |-> i, buf |-> buf, data |-> data]

\* what the caller sees as data: buf[0 .. ret-1]
Visible(r) ==
    IF r.ret > 0 THEN SubSeq(r.buf, 1, r.ret) ELSE <<>>

\* pipe.c:71-105
pipe_read(p, fd, count) ==
    /\ Running(p)
    /\ LET e == find_pipe(p, fd)
       IN
       IF e = NULL
       THEN /\ last' = Call("read", p, fd, -1, <<>>, "not valid", FALSE)
            /\ UNCHANGED <<prog, hist>>
       ELSE IF WrongDir(e, "READ")
       THEN /\ last' = Call("read", p, fd, -1, <<>>, "not a read pipe", FALSE)
            /\ UNCHANGED <<prog, hist>>
       ELSE IF cb[ep[e].cb].alloc
       THEN LET r == ReadLoop(cb[ep[e].cb].data, <<>>, 0, count)
            IN
            /\ cb' = [cb EXCEPT ![ep[e].cb].data = r.data]
            /\ last' = Call("read", p, fd, r.ret, Visible(r), "",
                            released[PipeOf(e)] > 0)
            /\ UNCHANGED <<pipes, fd_max, started, halted, ep, np, hist>>
       ELSE \* the buffer's memory was released and not reused: any result
            /\ \E ret \in 0..count :
                  last' = Call("read", p, fd, ret, <<>>, "", TRUE)
            /\ UNCHANGED <<prog, hist>>

\* --------------------------------------------------------- pipe_write
RECURSIVE WriteLoopOffByOne(_, _, _)
\* mutant of WriteLoop: the full test lets one byte too many in
WriteLoopOffByOne(data, buf, i) ==
    IF i < Len(buf) /\ Len(data) # Capacity + 1
    THEN WriteLoopOffByOne(Append(data, buf[i + 1]), buf, i + 1)
    ELSE [ret |-> i, data |-> data]

RECURSIVE WriteLoop(_, _, _)
\* pipe.c:124-133: push buf[i..] until the ring is full
WriteLoop(data, buf, i) ==
    IF i < Len(buf) /\ Len(data) # Capacity
    THEN WriteLoop(Append(data, buf[i + 1]), buf, i + 1)
    ELSE [ret |-> i, data |-> data]

\* pipe.c:127: the message of a loop that stopped early
FullMsg(ret, buf) ==
    IF ret < Len(buf) THEN "pipe was full" ELSE ""

\* the outcomes of the push loop through endpoint e: the return value, the
\* heap after it, the message, whether released memory was addressed.
\* Released memory that was not reused holds anything, so the loop may stop
\* anywhere
PushOutcomes(e, buf) ==
    IF cb[ep[e].cb].alloc
    THEN LET w == WriteLoop(cb[ep[e].cb].data, buf, 0)
         IN  {[ret |-> w.ret,
               cb |-> [cb EXCEPT ![ep[e].cb].data = w.data],
               err |-> FullMsg(w.ret, buf),
               uaf |-> released[PipeOf(e)] > 0]}
    ELSE {[ret |-> r, cb |-> cb, err |-> FullMsg(r, buf), uaf |-> TRUE] :
             r \in 0..Len(buf)}

\* pipe.c:107-134
pipe_write(p, fd, buf) ==
    /\ Running(p)
    /\ LET e == find_pipe(p, fd)
       IN
       IF e = NULL
       THEN /\ last' = Call("write", p, fd, -1, <<>>, "not valid", FALSE)
            /\ UNCHANGED <<prog, hist>>
       ELSE IF WrongDir(e, "WRITE")
       THEN /\ last' = Call("write", p, fd, -1, <<>>, "not a write pipe", FALSE)
            /\ UNCHANGED <<prog, hist>>
       ELSE /\ \E o \in PushOutcomes(e, buf) :
                /\ cb' = o.cb
                /\ last' = Call("write", p, fd, o.ret, <<>>, o.err, o.uaf)
            /\ UNCHANGED <<pipes, fd_max, started, halted, ep, np, hist>>

\* --------------------------------------------------------- pipe_close
\* mutant of WritesEOF: the rule of the comment at pipe.c:143-147, the caller
\* is the endpoint's only owner
WritesEOFByOwners(p, e) ==
    ep[e].dir = "WRITE" /\ Len(ep[e].pids) = 1

\* pipe.c:152: the sentinel is written when this holds
WritesEOF(p, e) ==
    ep[e].dir = "WRITE" /\ Len(pipes[p]) = 1

\* mutant of FreesBuffer: either end releases the buffer
FreesBufferAlways(e) ==
    TRUE

\* mutant of FreesBuffer: the buffer goes with the last of the two endpoints
FreesBufferWithLastEnd(e) ==
    \A o \in {ReadEnd(PipeOf(e)), WriteEnd(PipeOf(e))} \ {e} :
        ep[o].st = "destroyed"

\* pipe.c:184: destroying this endpoint releases the buffer
FreesBuffer(e) ==
    ep[e].dir = "READ"

\* mutant of StillReferenced: the test is off by one
StillReferencedOffByOne(pids) ==
    Len(pids) # 1

\* pipe.c:177: other processes still reference the endpoint
StillReferenced(pids) ==
    Len(pids) # 0

\* pipe.c:152-157: the nested pipe_write(fd, &eof, 1); its result is dropped
EofOutcomes(p, e) ==
    IF WritesEOF(p, e)
    THEN PushOutcomes(e, <<EOF>>)
    ELSE {[ret |-> 0, cb |-> cb, err |-> "", uaf |-> FALSE]}

\* pipe.c:136-191
pipe_close(p, fd) ==
    /\ Running(p)
    /\ LET e == find_pipe(p, fd)
       IN
       IF e = NULL
       THEN /\ last' = Call("close", p, fd, -1, <<>>, "not valid", FALSE)
            /\ UNCHANGED <<prog, hist>>
       ELSE
       \E o \in EofOutcomes(p, e) :
       LET idx == array_m_index(ep[e].pids, p)
           owned == idx # ARR_NOT_FOUND
           pids1 == IF owned THEN array_m_remove(ep[e].pids, idx) ELSE ep[e].pids
           idx2 == array_m_index(pipes[p], e)
           listed == owned /\ idx2 # ARR_NOT_FOUND
           reg1 == IF listed THEN array_m_remove(pipes[p], idx2) ELSE pipes[p]
           gone == listed /\ ~StillReferenced(pids1)
           frees == gone /\ FreesBuffer(e)
       IN
       /\ ep' = [ep EXCEPT ![e].pids = pids1,
                           ![e].st = IF gone THEN "destroyed" ELSE @]
       /\ pipes' = [pipes EXCEPT ![p] = reg1]
       /\ cb' = IF frees THEN [o.cb EXCEPT ![ep[e].cb] = FreedCb] ELSE o.cb
       /\ released' = IF frees
                      THEN [released EXCEPT ![PipeOf(e)] = @ + 1]
                      ELSE released
       /\ closed' = IF listed THEN [closed EXCEPT ![p] = @ \cup {fd}] ELSE closed
       /\ last' = CallVoid("close", p, fd, <<>>,
                           IF ~owned THEN "not owned"
                           ELSE IF ~listed THEN "not present" ELSE o.err,
                           o.uaf)
       /\ UNCHANGED <<fd_max, started, halted, np>>

\* ----------------------------------------------- process duplication
\* the child q starts with the parent's registry and descriptor counter and
\* joins the owner list of every endpoint the parent holds
fork(p, q) ==
    /\ Running(p)
    /\ ~started[q]
    /\ \A i \in 1..Len(pipes[p]) : Len(ep[pipes[p][i]].pids) < PidsMaxSize
    /\ started' = [started EXCEPT ![q] = TRUE]
    /\ pipes' = [pipes EXCEPT ![q] = pipes[p]]
    /\ fd_max' = [fd_max EXCEPT ![q] = fd_max[p]]
    /\ ep' = [e \in Eps |->
                IF array_m_index(pipes[p], e) # ARR_NOT_FOUND
                THEN [ep[e] EXCEPT !.pids = array_m_insert(@, q)]
                ELSE ep[e]]
    /\ last' = Call("fork", p, 0, q, <<>>, "", FALSE)
    /\ UNCHANGED <<halted, cb, np, hist>>

\* one pipe, every input: the data path
Next ==
    \/ \E p \in Procs : np = 0 /\ pipe(p)
    \/ \E p \in Procs : \E fd \in FdsOf(p), count \in Counts : pipe_read(p, fd, count)
    \/ \E p \in Procs : \E fd \in FdsOf(p), buf \in WriteInputs : pipe_write(p, fd, buf)
    \/ \E p \in Procs : \E fd \in FdsOf(p) : pipe_close(p, fd)
    \/ \E p \in Procs, q \in Procs : fork(p, q)

Spec == Init /\ [][Next]_vars

\* MaxCreates pipes, few inputs: registries, owner lists, buffer lifetime
NextLife ==
    \/ \E p \in Procs : pipe(p)
    \/ \E p \in Procs : \E fd \in FdsOf(p), count \in LifeCounts : pipe_read(p, fd, count)
    \/ \E p \in Procs : \E fd \in FdsOf(p), buf \in LifeInputs : pipe_write(p, fd, buf)
    \/ \E p \in Procs : \E fd \in FdsOf(p) : pipe_close(p, fd)
    \/ \E p \in Procs, q \in Procs : fork(p, q)

SpecLife == Init /\ [][NextLife]_vars

\* ================================================================ claims
\* process q holds endpoint e: q is in the owner list pids and e is in q's
\* registry reg
Owns(q, e, pids, reg) ==
    /\ array_m_index(pids, q) # ARR_NOT_FOUND
    /\ array_m_index(reg, e) # ARR_NOT_FOUND

RECURSIVE DataBefore(_)
\* the bytes of a ring content in front of its first sentinel
DataBefore(data) ==
    IF data = <<>> \/ Head(data) = EOF
    THEN <<>>
    ELSE <<Head(data)>> \o DataBefore(Tail(data))

\* C1: what the READ end delivers is what the WRITE end put in, in order and
\* without loss: a read takes its bytes from the front of the pipe's ring and
\* delivers every byte it takes, and a read asking for at least as many
\* bytes as the ring holds returns all of them (write N bytes into the empty
\* ring, read count >= N: N is returned with exactly those bytes).
C1_ReadStep ==
    last'.op = "read" =>
        LET p == last'.pid
            fd == last'.fd
            e == find_pipe(p, fd)
        IN  (e # NULL /\ ep[e].dir = "READ" /\ cb[ep[e].cb].alloc) =>
                \A count \in Counts :
                    pipe_read(p, fd, count) =>
                        LET data == cb[ep[e].cb].data
                        IN  /\ data = last'.buf \o cb'[ep[e].cb].data
                            /\ count >= Len(data) =>
                                    (last'.ret = Len(data) /\ last'.buf = data)

C1_SharedBufferFifo ==
    [][C1_ReadStep]_vars

\* C2: a ring never holds more than Capacity bytes, and pipe_write of n bytes
\* through a WRITE descriptor whose buffer holds c bytes returns
\* min(n, Capacity - c) and appends exactly that many of the caller's bytes
\* (so Capacity + K bytes into an empty ring return Capacity, and a further
\* write returns 0 and leaves the ring as it is).
C2_CountInv ==
    \A a \in Addrs : Len(cb[a].data) >= 0 /\ Len(cb[a].data) <= Capacity

C2_WriteStep ==
    last'.op = "write" =>
        LET p == last'.pid
            fd == last'.fd
            e == find_pipe(p, fd)
        IN  (e # NULL /\ ep[e].dir = "WRITE" /\ cb[ep[e].cb].alloc) =>
                \A buf \in WriteInputs :
                    pipe_write(p, fd, buf) =>
                        LET data == cb[ep[e].cb].data
                            r == Min(Len(buf), Capacity - Len(data))
                        IN  /\ last'.ret = r
                            /\ cb'[ep[e].cb].data = data \o SubSeq(buf, 1, r)

C2_CapacityBound ==
    []C2_CountInv /\ [][C2_WriteStep]_vars

\* C2 witness: more bytes than the ring holds were written into the empty
\* ring in one call, and Capacity came back
C2_Witness ==
    /\ last.op = "write"
    /\ last.ret = Capacity
    /\ last.err = "pipe was full"

\* C3: once the WRITE end of a pipe is destroyed, a read of the READ end
\* that asks for at least what the ring holds returns every unread data byte
\* in order and leaves the ring empty, and no read returns -1 or hands the
\* sentinel to the caller.  Stated for rings that hold data bytes followed
\* by at most one sentinel, which is what a closing writer leaves.
C3_ReadStep ==
    last'.op = "read" =>
        LET p == last'.pid
            fd == last'.fd
            e == find_pipe(p, fd)
        IN  (/\ e # NULL
             /\ ep[e].dir = "READ"
             /\ cb[ep[e].cb].alloc
             /\ ep[WriteEnd(PipeOf(e))].st = "destroyed"
             /\ cb[ep[e].cb].data \in
                    {DataBefore(cb[ep[e].cb].data),
                     DataBefore(cb[ep[e].cb].data) \o <<EOF>>}) =>
                \A count \in Counts :
                    pipe_read(p, fd, count) =>
                        LET data == cb[ep[e].cb].data
                        IN  /\ last'.ret >= 0
                            /\ \A i \in 1..Len(last'.buf) : last'.buf[i] # EOF
                            /\ count >= Len(data) =>
                                    /\ last'.ret = Len(DataBefore(data))
                                    /\ last'.buf = DataBefore(data)
                                    /\ cb'[ep[e].cb].data = <<>>

C3_EofFraming ==
    [][C3_ReadStep]_vars

\* C4: no call reads from or writes to a ring buffer that has been released.
C4_NoUseAfterRelease ==
    ~last.uaf

\* C5: when two processes hold an endpoint, a close by one of them leaves
\* the endpoint alive, its buffer unreleased and its content unchanged, and
\* leaves the other process holding it with its registry untouched.
C5_CloseStep ==
    last'.op = "close" =>
        LET p == last'.pid
            fd == last'.fd
            e == find_pipe(p, fd)
        IN  (/\ e # NULL
             /\ Owns(p, e, ep[e].pids, pipes[p])
             /\ \E q \in Procs \ {p} : Owns(q, e, ep[e].pids, pipes[q])) =>
                /\ ep'[e].st = "live"
                /\ released' = released
                /\ cb'[ep[e].cb] = cb[ep[e].cb]
                /\ \A q \in Procs \ {p} :
                        /\ pipes'[q] = pipes[q]
                        /\ Owns(q, e, ep[e].pids, pipes[q]) =>
                                Owns(q, e, ep'[e].pids, pipes'[q])

C5_SharedEndpointClose ==
    [][C5_CloseStep]_vars

\* C6: pipe_write on a descriptor of a READ endpoint and pipe_read on a
\* descriptor of a WRITE endpoint return -1 (wrong direction) and change
\* neither the buffers nor the owner lists nor the registries.
C6_Step ==
    /\ last'.op = "write" =>
            LET e == find_pipe(last'.pid, last'.fd)
            IN  (e # NULL /\ ep[e].dir = "READ") =>
                    /\ last'.ret = -1 /\ ~last'.void
                    /\ last'.err = "not a write pipe"
                    /\ UNCHANGED <<prog, hist>>
    /\ last'.op = "read" =>
            LET e == find_pipe(last'.pid, last'.fd)
            IN  (e # NULL /\ ep[e].dir = "WRITE") =>
                    /\ last'.ret = -1 /\ ~last'.void
                    /\ last'.err = "not a read pipe"
                    /\ UNCHANGED <<prog, hist>>

C6_DirectionEnforced ==
    [][C6_Step]_vars

\* C6 witness: a write through a READ descriptor was refused while the ring
\* held data
C6_Witness ==
    /\ last.op = "write"
    /\ last.err = "not a write pipe"
    /\ \E a \in Addrs : cb[a].data # <<>>

\* C7: a descriptor a process has closed stays invalid for that process:
\* every later pipe_read, pipe_write and pipe_close of it returns -1 (not
\* valid) and changes nothing, whatever pipes the process creates meanwhile.
C7_Step ==
    (last'.op \in {"read", "write", "close"} /\ last'.fd \in closed[last'.pid]) =>
        /\ last'.ret = -1 /\ ~last'.void
        /\ last'.err = "not valid"
        /\ UNCHANGED <<prog, hist>>

C7_ClosedStaysInvalid ==
    [][C7_Step]_vars

\* C7 witness: a read of a closed descriptor was refused in a process that
\* holds a pipe it created after closing an endpoint of an earlier one (its
\* registry holds more endpoints than one pipe has)
C7_Witness ==
    /\ last.op = "read"
    /\ last.fd \in closed[last.pid]
    /\ last.ret = -1
    /\ Len(pipes[last.pid]) > 2
    /\ \E i \in 1..Len(pipes[last.pid]) : ep[pipes[last.pid][i]].fd > last.fd

\* C8: pipe() hits the fatal assertion exactly when two more entries would
\* exceed the registry's capacity; no registry ever exceeds its capacity; a
\* failing pipe() leaves the registry and every endpoint in it (descriptor,
\* direction, owner list, buffer) as they were.
C8_SizeInv ==
    \A p \in Procs : Len(pipes[p]) <= PipesMaxSize

C8_PipeStep ==
    last'.op = "pipe" =>
        LET p == last'.pid
            over == Len(pipes[p]) + 2 > PipesMaxSize
        IN  /\ (last'.err = "ran out of pipes") <=> over
            /\ halted'[p] <=> over
            /\ over =>
                /\ pipes' = pipes
                /\ \A i \in 1..Len(pipes[p]) :
                        LET e == pipes[p][i]
                        IN  /\ ep'[e] = ep[e]
                            /\ cb[ep[e].cb].alloc => cb'[ep[e].cb] = cb[ep[e].cb]
            /\ ~over =>
                Len(pipes'[p]) = Len(pipes[p]) + 2

C8_RegistryExhaustion ==
    []C8_SizeInv /\ [][C8_PipeStep]_vars

\* C8 witness: pipe() failed in a process whose registry holds endpoints
C8_Witness ==
    /\ last.op = "pipe"
    /\ last.err = "ran out of pipes"
    /\ halted[last.pid]
    /\ pipes[last.pid] # <<>>

\* C9: no pipe's buffer is released twice, and once every owner has closed
\* both endpoints of a pipe its buffer has been released.
C9_ReleasedOnce ==
    \A k \in Pipes :
        /\ released[k] <= 1
        /\ (/\ k <= np
            /\ ep[ReadEnd(k)].pids = <<>>
            /\ ep[WriteEnd(k)].pids = <<>>) => released[k] = 1

\* C9 witness: both endpoints of a pipe were closed by every owner, the
\* READ end by two of them
C9_Witness ==
    \E k \in Pipes :
        /\ k <= np
        /\ ep[ReadEnd(k)].pids = <<>>
        /\ ep[WriteEnd(k)].pids = <<>>
        /\ released[k] = 1
        /\ \A p \in Procs : ep[ReadEnd(k)].fd \in closed[p]

\* C10: an endpoint that is not destroyed has an owner, and an endpoint
\* without owners is destroyed and in no registry.
C10_OwnersInv ==
    \A e \in Eps :
        ep[e].st # "none" =>
            /\ ep[e].st = "live" => ep[e].pids # <<>>
            /\ ep[e].pids = <<>> =>
                /\ ep[e].st = "destroyed"
                /\ \A p \in Procs : array_m_index(pipes[p], e) = ARR_NOT_FOUND

\* C10 witness: one endpoint was destroyed by the second of its two owners
\* while another endpoint is still held by two processes
C10_Witness ==
    /\ last.op = "close"
    /\ \E e \in Eps :
            /\ ep[e].st = "destroyed"
            /\ \A p \in Procs : ep[e].fd \in closed[p]
    /\ \E e \in Eps : ep[e].st = "live" /\ Len(ep[e].pids) = 2

\* C11: the descriptors pipe() hands to a process grow strictly from one
\* create to the next: the READ descriptor comes first and the WRITE
\* descriptor is the next id, both lie above every descriptor the process
\* holds or has closed (no reuse after a close), and no registry holds two
\* endpoints with the same descriptor.
C11_FdInv ==
    \A p \in Procs :
        /\ \A i \in 1..Len(pipes[p]) : ep[pipes[p][i]].fd < fd_max[p]
        /\ \A f \in closed[p] : f < fd_max[p]
        /\ \A i \in 1..Len(pipes[p]), j \in 1..Len(pipes[p]) :
                i # j => ep[pipes[p][i]].fd # ep[pipes[p][j]].fd

C11_PipeStep ==
    /\ \A p \in Procs : fd_max'[p] >= fd_max[p]
    /\ last'.op = "pipe" =>
        LET p == last'.pid
            r == ReadEnd(np + 1)
            w == WriteEnd(np + 1)
        IN  /\ ep'[r].dir = "READ" /\ ep'[w].dir = "WRITE"
            /\ ep'[w].fd = ep'[r].fd + 1
            /\ last'.buf = <<ep'[r].fd, ep'[w].fd>>
            /\ fd_max'[p] > ep'[w].fd
            /\ \A f \in closed[p] : f < ep'[r].fd
            /\ \A i \in 1..Len(pipes[p]) : ep[pipes[p][i]].fd < ep'[r].fd

C11_FdMonotonic ==
    []C11_FdInv /\ [][C11_PipeStep]_vars

\* C11 witness: a process that closed its first READ descriptor created a
\* second pipe and was handed the two ids after the ones of its first pipe
C11_Witness ==
    /\ last.op = "pipe"
    /\ last.err = ""
    /\ last.buf = <<2, 3>>
    /\ 0 \in closed[last.pid]
    /\ Len(pipes[last.pid]) = 3

\* C12: a read through a READ descriptor that pops k data bytes (k < count)
\* and then the sentinel stops there, takes the sentinel out of the ring,
\* returns k and hands the caller exactly the k data bytes.
C12_ReadStep ==
    last'.op = "read" =>
        LET p == last'.pid
            fd == last'.fd
            e == find_pipe(p, fd)
        IN  (e # NULL /\ ep[e].dir = "READ" /\ cb[ep[e].cb].alloc) =>
                \A count \in Counts :
                    pipe_read(p, fd, count) =>
                        LET data == cb[ep[e].cb].data
                            d == DataBefore(data)
                        IN  (Len(d) < count /\ Len(d) < Len(data)) =>
                                /\ cb'[ep[e].cb].data =
                                        SubSeq(data, Len(d) + 2, Len(data))
                                /\ last'.ret = Len(d)
                                /\ last'.buf = d

C12_SentinelNotCounted ==
    [][C12_ReadStep]_vars

\* C13: a pipe_close of a WRITE endpoint under the last-writer condition
\* writes the sentinel while the caller still holds the endpoint (the
\* descriptor resolves through the registry and the caller is in the owner
\* list when the write runs), and when the close returns the sentinel is the
\* newest byte of the ring, behind everything the ring held, whatever its
\* fill level was.
C13_CloseStep ==
    last'.op = "close" =>
        LET p == last'.pid
            fd == last'.fd
            e == find_pipe(p, fd)
        IN  (/\ e # NULL
             /\ WritesEOF(p, e)
             /\ cb[ep[e].cb].alloc) =>
                /\ Owns(p, e, ep[e].pids, pipes[p])
                /\ cb'[ep[e].cb].data = Append(cb[ep[e].cb].data, EOF)

C13_SentinelOnClose ==
    [][C13_CloseStep]_vars

\* C14: pipe_close attempts the sentinel write exactly when the endpoint is
\* a WRITE endpoint and the caller's registry holds exactly one entry at the
\* time of the call, however many owners the endpoint has.  An attempt
\* shows as the sentinel appended to the ring, as the message of a full
\* ring, or as an access to a released buffer.
C14_CloseStep ==
    last'.op = "close" =>
        LET p == last'.pid
            fd == last'.fd
            e == find_pipe(p, fd)
            attempted ==
                \/ last'.err = "pipe was full"
                \/ last'.uaf
                \/ cb'[ep[e].cb].data = Append(cb[ep[e].cb].data, EOF)
        IN  e # NULL =>
                (attempted <=> (ep[e].dir = "WRITE" /\ Len(pipes[p]) = 1))

C15_Step ==
    /\ last'.op # "close" => released' = released
    /\ last'.op = "close" =>
        LET p == last'.pid
            fd == last'.fd
            e == find_pipe(p, fd)
            a == ep[e].cb
            destroys == ep[e].st = "live" /\ ep'[e].st = "destroyed"
        IN  IF e = NULL
            THEN released' = released
            ELSE /\ destroys <=> ep'[e].pids = <<>>
                 /\ (destroys /\ ep[e].dir = "READ") =>
                        /\ released' = [released EXCEPT ![PipeOf(e)] = @ + 1]
                        /\ ~cb'[a].alloc
                 /\ ~(destroys /\ ep[e].dir = "READ") =>
                        /\ released' = released
                        /\ cb'[a].alloc = cb[a].alloc
                        /\ cb'[a].data \in {cb[a].data, Append(cb[a].data, EOF)}

C15_ReleaseOnReadDestroy ==
    [][C15_Step]_vars

\* C15 witness: one pipe lost its WRITE endpoint and keeps its unread byte
\* in an unreleased ring for the READ endpoint, another lost its READ
\* endpoint and with it its buffer while its WRITE endpoint still has an owner
C15_Witness ==
    /\ last.op = "close"
    /\ \E k \in Pipes :
            /\ ep[WriteEnd(k)].st = "destroyed"
            /\ ep[ReadEnd(k)].st = "live"
            /\ released[k] = 0
            /\ cb[ep[ReadEnd(k)].cb].alloc
            /\ cb[ep[ReadEnd(k)].cb].data # <<>>
    /\ \E k \in Pipes :
            /\ ep[ReadEnd(k)].st = "destroyed"
            /\ ep[WriteEnd(k)].st = "live"
            /\ ep[WriteEnd(k)].pids # <<>>
            /\ released[k] = 1

\* C16: for every live endpoint e and every process p that has not been
\* terminated, p is in e's owner list exactly if e is in p's registry; so a
\* pipe_close whose descriptor resolved never takes the "not owned" or the
\* "not present" branch, and both of its removals succeed.
C16_OwnerRegistryInv ==
    \A e \in Eps, p \in Procs :
        (ep[e].st = "live" /\ ~halted[p]) =>
            (array_m_index(ep[e].pids, p) # ARR_NOT_FOUND
                <=> array_m_index(pipes[p], e) # ARR_NOT_FOUND)

C16_CloseStep ==
    last'.op = "close" =>
        LET p == last'.pid
            e == find_pipe(p, last'.fd)
        IN  e # NULL =>
                /\ last'.err \notin {"not owned", "not present"}
                /\ Len(ep'[e].pids) = Len(ep[e].pids) - 1
                /\ array_m_index(ep'[e].pids, p) = ARR_NOT_FOUND
                /\ Len(pipes'[p]) = Len(pipes[p]) - 1
                /\ array_m_index(pipes'[p], e) = ARR_NOT_FOUND

C17_Step ==
    last'.op \in {"pipe", "read", "write", "close"} =>
        LET p == last'.pid
            fd == last'.fd
            hits == {i \in 1..Len(pipes[p]) : ep[pipes[p][i]].fd = fd}
        IN  /\ \A q \in Procs \ {p} : pipes'[q] = pipes[q]
            /\ last'.op = "pipe" =>
                    /\ ep[ReadEnd(np + 1)].st = "none"
                    /\ ep[WriteEnd(np + 1)].st = "none"
                    /\ pipes'[p] =
                        IF last'.err = ""
                        THEN pipes[p] \o <<ReadEnd(np + 1), WriteEnd(np + 1)>>
                        ELSE pipes[p]
            /\ last'.op \in {"read", "write"} => pipes'[p] = pipes[p]
            /\ last'.op = "close" =>
                    IF hits = {}
                    THEN pipes'[p] = pipes[p]
                    ELSE \E i \in hits :
                            /\ pipes'[p] = array_m_remove(pipes[p], i)
                            /\ Len(pipes'[p]) = Len(pipes[p]) - 1

C17_RegistryFrame ==
    [][C17_Step]_vars

\* C17 witness: process 1 closed a descriptor, and process 2 holds a
\* registry of its own that differs from the one process 1 is left with
C17_Witness ==
    /\ last.op = "close"
    /\ last.pid = 1
    /\ last.err = ""
    /\ last.fd \in closed[1]
    /\ pipes[2] # <<>>
    /\ pipes[1] # <<>>
    /\ pipes[1] # pipes[2]
    /\ \E i \in 1..Len(pipes[2]) : ep[pipes[2][i]].fd = last.fd

\* C18: pipe_read through a READ descriptor whose ring is empty returns 0
\* at once, for every count >= 0, hands the caller no byte, and leaves the
\* ring, the owner lists and the registries as they were.
C18_ReadStep ==
    last'.op = "read" =>
        LET p == last'.pid
            fd == last'.fd
            e == find_pipe(p, fd)
        IN  (/\ e # NULL
             /\ ep[e].dir = "READ"
             /\ cb[ep[e].cb].alloc
             /\ cb[ep[e].cb].data = <<>>) =>
                /\ \A count \in Counts :
                        LET r == ReadLoop(cb[ep[e].cb].data, <<>>, 0, count)
                        IN  r.ret = 0 /\ Visible(r) = <<>> /\ r.data = <<>>
                /\ last'.ret = 0 /\ ~last'.void
                /\ last'.buf = <<>>
                /\ last'.err = ""
                /\ UNCHANGED <<prog, hist>>

C18_EmptyReadReturnsZero ==
    [][C18_ReadStep]_vars

\* C18 witness: a read of an empty ring returned 0 in a process that shares
\* both endpoints of the pipe with another process
C18_Witness ==
    /\ last.op = "read"
    /\ last.ret = 0 /\ ~last.void
    /\ last.err = ""
    /\ \E e \in Eps :
            /\ ep[e].dir = "READ"
            /\ ep[e].fd = last.fd
            /\ ep[e].st = "live"
            /\ Len(ep[e].pids) = 2
            /\ Len(ep[WriteEnd(PipeOf(e))].pids) = 2
            /\ cb[ep[e].cb].alloc
            /\ cb[ep[e].cb].data = <<>>

\* C19: pipe_read returns -1 only for a descriptor that does not resolve or
\* that resolves to a WRITE endpoint.  Through a READ descriptor, whatever
\* the ring holds (a sentinel in front included) and whatever count >= 0
\* is, the return value r lies in 0..count, so that the terminator stored
\* at buf[r] lies inside the caller's buffer.
C19_ReadStep ==
    last'.op = "read" =>
        LET p == last'.pid
            fd == last'.fd
            e == find_pipe(p, fd)
        IN  /\ (last'.ret = -1 /\ ~last'.void) =>
                    (e = NULL \/ ep[e].dir = "WRITE")
            /\ (e # NULL /\ ep[e].dir = "READ") =>
                    \A count \in Counts :
                        pipe_read(p, fd, count) =>
                            (last'.ret >= 0 /\ last'.ret <= count)

C19_ReadResultInRange ==
    [][C19_ReadStep]_vars

====
